---- MODULE Spec2Model ----
(***************************************************************************)
(* State-machine model of the ArcadeDB scraper                             *)
(* (resources/lib/scraper.py): candidate resolution, the internal disk     *)
(* cache namespace, metadata and asset extraction, and status propagation. *)
(*                                                                         *)
(* Python values are modelled as tagged records: None is [tag |-> "None"], *)
(* a dict is [tag |-> "dict", val |-> f] with f a function from its keys,  *)
(* a list is [tag |-> "list", val |-> s] with s a sequence.                *)
(***************************************************************************)
EXTENDS Integers, Sequences, FiniteSets, TLC

VARIABLES
    scraper_disabled,   \* self.scraper_disabled
    cache_key,          \* self.cache_key
    candidate,          \* self.candidate
    disk_cache,         \* self.disk_caches[Scraper.CACHE_INTERNAL]
    status_dic,         \* the caller's status_dic threaded through the calls
    last,               \* observation of the most recent operation
    session,            \* progress of the caller's resolve-then-extract session
    tests               \* the local state of each running test method

vars ==
    <<scraper_disabled, cache_key, candidate, disk_cache, status_dic, last,
      session, tests>>

-----------------------------------------------------------------------------
(* Bounds of the model *)

\* Largest number of records in one upstream answer.
MaxRecords == 2

\* ROM identifiers (rom_FN.getBaseNoExt()) and platforms, from the test data.
Identifiers == {"dino", "mslug"}
Platforms == {"MAME"}

-----------------------------------------------------------------------------
(* Python values *)

None == [tag |-> "None"]
Dict(f) == [tag |-> "dict", val |-> f]
List(s) == [tag |-> "list", val |-> s]

\* A dict with no keys.
EmptyDict == [k \in {} |-> ""]

IsNone(v) == v.tag = "None"

\* str(n) for a natural number n.
DigitChar == <<"0", "1", "2", "3", "4", "5", "6", "7", "8", "9">>

RECURSIVE StrDigits(_)
StrDigits(n) ==
    IF n < 10 THEN <<DigitChar[n + 1]>>
    ELSE Append(StrDigits(n \div 10), DigitChar[(n % 10) + 1])

Str(n) == StrDigits(n)

-----------------------------------------------------------------------------
(* Asset and metadata identifiers (ael.constants) *)

ASSET_BANNER_ID == "ASSET_BANNER_ID"
ASSET_TITLE_ID == "ASSET_TITLE_ID"
ASSET_SNAP_ID == "ASSET_SNAP_ID"
ASSET_BOXFRONT_ID == "ASSET_BOXFRONT_ID"
ASSET_FLYER_ID == "ASSET_FLYER_ID"
ASSET_FANART_ID == "ASSET_FANART_ID"
DEFAULT_META_ESRB == "DEFAULT_META_ESRB"

\* The asset kinds a caller may request.
AssetKinds ==
    {ASSET_BANNER_ID, ASSET_TITLE_ID, ASSET_SNAP_ID, ASSET_BOXFRONT_ID,
     ASSET_FLYER_ID, ASSET_FANART_ID}

supported_asset_list ==
    <<ASSET_TITLE_ID, ASSET_SNAP_ID, ASSET_BOXFRONT_ID, ASSET_FLYER_ID>>

supports_asset_ID(asset_ID) ==
    \E i \in 1..Len(supported_asset_list) : supported_asset_list[i] = asset_ID

-----------------------------------------------------------------------------
(* The upstream service: raw game records and responses of net.get_URL *)

MetaFields == {"title", "year", "genre", "manufacturer", "players", "history"}
AssetFields ==
    {"url_image_marquee", "url_image_title", "url_image_ingame",
     "url_image_cabinet", "url_image_flyer"}

Title(id) ==
    IF id = "dino" THEN "Cadillacs and Dinosaurs (World 930201)"
    ELSE "Metal Slug - Super Vehicle-001"

Players(id) == IF id = "dino" THEN 4 ELSE 2

\* The complete raw record the service holds for a game.
FullRecord(id) ==
    [f \in MetaFields \cup AssetFields |->
        CASE f = "title" -> Title(id)
          [] f = "year" -> IF id = "dino" THEN "1993" ELSE "1996"
          [] f = "genre" -> IF id = "dino" THEN "Beat-'Em-Up" ELSE "Shooter"
          [] f = "manufacturer" -> IF id = "dino" THEN "Capcom" ELSE "Nazca"
          [] f = "players" -> Players(id)
          [] f = "history" -> <<"history of", id>>
          [] OTHER -> <<"http://adb.arcadeitalia.net/media", id, f>>]

Restrict(rec, F) == [f \in F |-> rec[f]]

\* The field sets with which the service may answer for a game: everything,
\* and a record without history text, marquee and flyer.
FieldSets ==
    {MetaFields \cup AssetFields,
     (MetaFields \cup AssetFields)
        \ {"history", "url_image_marquee", "url_image_flyer"}}

RecordsOf(id) == {Restrict(FullRecord(id), F) : F \in FieldSets}

\* The 'result' sequences of n records the service may return for a game.
ResultSeqs(id, n) ==
    {[i \in 1..n |-> IF i = 1 THEN r ELSE FullRecord(id)] : r \in RecordsOf(id)}

\* page_data_raw: None (transport exception), or text that json.loads
\* either rejects or decodes to a dict.
PageNone == None
PageUndecodable == [tag |-> "str", decodes |-> FALSE]
PageJson(d) == [tag |-> "str", decodes |-> TRUE, json |-> d]

ServiceMessage == "service unavailable"

ErrorPages ==
    {PageNone, PageUndecodable, PageJson([message |-> ServiceMessage]),
     PageJson(EmptyDict)}

ResultPages(id) ==
    {PageJson([result |-> s]) : s \in UNION {ResultSeqs(id, n) : n \in 0..MaxRecords}}

\* What net.get_URL may return for a query of game_name: (page_data_raw,
\* http_code). With HTTP 200 every page occurs; with HTTP 503 the error
\* pages and two decodable result bodies.
Responses(game_name) ==
    {[page |-> p, code |-> 200] : p \in ErrorPages \cup ResultPages(game_name)}
    \cup {[page |-> p, code |-> 503] :
            p \in ErrorPages \cup
                  {PageJson([result |-> s]) :
                      s \in {<<>>, <<FullRecord(game_name)>>}}}

\* json.loads(page_data_raw): raises on None and on undecodable text.
JsonLoads(page) ==
    IF page.tag = "None" THEN [ok |-> FALSE]
    ELSE IF ~page.decodes THEN [ok |-> FALSE]
    ELSE [ok |-> TRUE, val |-> page.json]

-----------------------------------------------------------------------------
(* Collaborators of the Scraper base class and of kodi *)

\* kodi.new_status_dic(msg)
NewStatusDic == [status |-> TRUE, msg |-> [text |-> "Scraper test was OK"]]

\* Scraper._handle_error(status_dic, user_msg)
HandleError(status, user_msg) == [status |-> FALSE, msg |-> user_msg]

\* Scraper._handle_exception(ex, status_dic, user_msg)
HandleException(status, user_msg) == [status |-> FALSE, msg |-> user_msg]

\* The key under which set_candidate / check_candidates_cache file a lookup.
QueryKey(identifier, platform) == <<identifier, platform>>

Keys == {QueryKey(i, p) : i \in Identifiers, p \in Platforms}

\* self.cache_key before any lookup has set it. ArcadeDB itself never
\* assigns self.cache_key: only set_candidate and check_candidates_cache of
\* the base class do. A read of it before that fails (NO_CACHE_KEY).
NoKey == <<>>

\* Scraper._check_disk_cache(CACHE_INTERNAL, key)
CheckDiskCache(cache, key) == key \in DOMAIN cache

\* Scraper._retrieve_from_disk_cache(CACHE_INTERNAL, key)
RetrieveFromDiskCache(cache, key) == cache[key]

\* Scraper._update_disk_cache(CACHE_INTERNAL, key, data)
UpdateDiskCache(cache, key, data) ==
    [k \in DOMAIN cache \cup {key} |-> IF k = key THEN data ELSE cache[k]]

\* Scraper._new_candidate_dic()
NewCandidateDic ==
    [id |-> "", display_name |-> "", platform |-> "", scraper_platform |-> "",
     order |-> 0]

\* Scraper._new_gamedata_dic()
NewGamedataDic ==
    [title |-> "", year |-> "", genre |-> "", developer |-> "",
     nplayers |-> <<>>, esrb |-> "", plot |-> <<>>]

\* Scraper._new_assetdata_dic()
NewAssetdataDic ==
    [asset_ID |-> "", display_name |-> "", url_thumb |-> <<>>, url |-> <<>>]

-----------------------------------------------------------------------------
(* What one call does: how it ends, what it returns and what it touches *)

\* outcome "return" with result, or outcome "raise" with the exception exc;
\* status and cache are the status_dic and the internal cache after the call;
\* net_calls counts net.get_URL invocations, cache_reads the _check_disk_cache
\* and _retrieve_from_disk_cache calls, cache_writes the _update_disk_cache
\* calls, and projected tells whether a raw record was read for projection.
Effect(outcome, exc, result, status, cache, net_calls, reads, writes, proj) ==
    [outcome |-> outcome, exc |-> exc, result |-> result, status |-> status,
     cache |-> cache, net_calls |-> net_calls, cache_reads |-> reads,
     cache_writes |-> writes, projected |-> proj]

\* The fields of the scraper object a call reads.
Self ==
    [scraper_disabled |-> scraper_disabled, cache_key |-> cache_key,
     candidate |-> candidate, disk_cache |-> disk_cache]

LOGIC_ERROR == "Logic error"
CARDINALITY_ERROR == "Unexpected number of games returned (more than one)."
KEY_ERROR == "KeyError"
INDEX_ERROR == "IndexError"
NO_CACHE_KEY == "self.cache_key is not set"
NO_CANDIDATE == "self.candidate is not set"

-----------------------------------------------------------------------------
(* ArcadeDB._retrieve_URL_as_JSON and ArcadeDB._get_QUERY_MAME *)

HTTP_ERROR_TEXT == "HTTP code {} message \"{}\""
UNKNOWN_ERROR_TEXT == "Unknown/unspecified error."
NETWORK_ERROR_TEXT == "Network error/exception in net_get_URL()"
DECODE_ERROR_TEXT == "Error decoding JSON data from ArcadeDB."

\* 'HTTP code {} message "{}"'.format(http_code, error_msg)
HttpErrorMsg(http_code, error_msg) ==
    [text |-> HTTP_ERROR_TEXT, http_code |-> http_code, error_msg |-> error_msg]

\* Variant of ErrorMsgOf that never looks at the body.
ErrorMsgOf_AlwaysGeneric(page) == UNKNOWN_ERROR_TEXT

\* The try/except of the HTTP error branch: the body's 'message', or the
\* generic text when the body does not decode or has no 'message'.
ErrorMsgOf(page) ==
    LET j == JsonLoads(page)
    IN  IF j.ok /\ "message" \in DOMAIN j.val THEN j.val.message
        ELSE UNKNOWN_ERROR_TEXT

\* Variant of DecodePage that swallows the decoding failure and hands back
\* an empty dict without marking the status.
DecodePage_SwallowError(page, status) ==
    IF ~JsonLoads(page).ok
    THEN [ret |-> Dict(EmptyDict), status |-> status]
    ELSE [ret |-> Dict(JsonLoads(page).val), status |-> status]

\* The final try/except: convert the page to JSON, or report the decoding
\* failure through the status and return None.
DecodePage(page, status) ==
    IF ~JsonLoads(page).ok
    THEN [ret |-> None,
          status |-> HandleException(status, [text |-> DECODE_ERROR_TEXT])]
    ELSE [ret |-> Dict(JsonLoads(page).val), status |-> status]

\* Returns [ret |-> json_data or None, status |-> status_dic afterwards].
RetrieveURLAsJSON(resp, status) ==
    IF resp.code # 200
    THEN [ret |-> None,
          status |-> HandleError(status,
                         HttpErrorMsg(resp.code, ErrorMsgOf(resp.page)))]
    ELSE IF IsNone(resp.page)
    THEN [ret |-> None,
          status |-> HandleError(status, [text |-> NETWORK_ERROR_TEXT])]
    ELSE DecodePage(resp.page, status)

\* url_a + '&game_name={}'.format(game_name)
BuildURL(game_name) ==
    <<"http://adb.arcadeitalia.net/service_scraper.php?ajax=query_mame",
      "&game_name=", game_name>>

\* The game the service is asked about by a URL.
URLGameName(url) == url[3]

GetQueryMame(rombase_noext, platform, resp, status) ==
    LET r == RetrieveURLAsJSON(resp, status)
    IN  IF ~r.status.status THEN [ret |-> None, status |-> r.status]
        ELSE r

-----------------------------------------------------------------------------
(* ArcadeDB.get_candidates *)

\* The candidate built from the single record of an answer.
MakeCandidate(rombase_noext, platform, gameinfo_dic) ==
    [NewCandidateDic EXCEPT
        !.id = rombase_noext,
        !.display_name = gameinfo_dic["title"],
        !.platform = platform,
        !.scraper_platform = platform,
        !.order = 1]

\* Variant of DisabledGetCandidates that returns an empty candidate list.
DisabledGetCandidates_EmptyList(self, status) ==
    Effect("return", "", List(<<>>), status, self.disk_cache, 0, 0, 0, FALSE)

\* The scraper is disabled: return None and leave status_dic alone.
DisabledGetCandidates(self, status) ==
    Effect("return", "", None, status, self.disk_cache, 0, 0, 0, FALSE)

\* Variant of NoGameFound that treats "no game" as a failed lookup.
NoGameFound_AsFailure(self, status) ==
    Effect("return", "", None,
           HandleError(status, [text |-> "Scraper found no game."]),
           self.disk_cache, 1, 0, 0, FALSE)

\* num_games == 0: the candidate list stays empty and is returned.
NoGameFound(self, status) ==
    Effect("return", "", List(<<>>), status, self.disk_cache, 1, 0, 0, FALSE)

\* Variant of CandidatesFromResponse that takes the first record of any
\* non-empty answer (and caches that answer) instead of raising on two or more.
CandidatesFromResponse_PickFirst(rombase_noext, platform, json_response_dic, self, status) ==
    IF "result" \notin DOMAIN json_response_dic
    THEN Effect("raise", KEY_ERROR, None, status, self.disk_cache, 1, 0, 0, FALSE)
    ELSE
    LET result == json_response_dic["result"]
    IN  IF Len(result) = 0
        THEN NoGameFound(self, status)
        ELSE IF self.cache_key = NoKey
        THEN Effect("raise", NO_CACHE_KEY, None, status, self.disk_cache,
                    1, 0, 0, TRUE)
        ELSE Effect("return", "",
                    List(<<MakeCandidate(rombase_noext, platform, result[1])>>),
                    status,
                    UpdateDiskCache(self.disk_cache, self.cache_key,
                                    json_response_dic),
                    1, 0, 1, TRUE)

\* The part of get_candidates after a successful query: the cardinality
\* policy on json_response_dic['result'].
CandidatesFromResponse(rombase_noext, platform, json_response_dic, self, status) ==
    IF "result" \notin DOMAIN json_response_dic
    THEN Effect("raise", KEY_ERROR, None, status, self.disk_cache, 1, 0, 0, FALSE)
    ELSE
    LET result == json_response_dic["result"]
        num_games == Len(result)
    IN  IF num_games = 0
        THEN NoGameFound(self, status)
        ELSE IF num_games = 1
        THEN IF "title" \notin DOMAIN result[1]
             THEN Effect("raise", KEY_ERROR, None, status, self.disk_cache,
                         1, 0, 0, TRUE)
             ELSE IF self.cache_key = NoKey
             THEN Effect("raise", NO_CACHE_KEY, None, status, self.disk_cache,
                         1, 0, 0, TRUE)
             ELSE Effect("return", "",
                         List(<<MakeCandidate(rombase_noext, platform, result[1])>>),
                         status,
                         UpdateDiskCache(self.disk_cache, self.cache_key,
                                         json_response_dic),
                         1, 0, 1, TRUE)
        ELSE Effect("raise", CARDINALITY_ERROR, None, status, self.disk_cache,
                    1, 0, 0, FALSE)

\* get_candidates(search_term, rom_FN, rom_checksums_FN, platform, status_dic)
\* with rombase_noext = rom_FN.getBaseNoExt() and resp the answer of
\* net.get_URL should the call reach it.
GetCandidates(rombase_noext, platform, resp, self, status) ==
    IF self.scraper_disabled
    THEN DisabledGetCandidates(self, status)
    ELSE
    LET q == GetQueryMame(rombase_noext, platform, resp, status)
    IN  IF ~q.status.status
        THEN Effect("return", "", None, q.status, self.disk_cache, 1, 0, 0, FALSE)
        ELSE CandidatesFromResponse(rombase_noext, platform, q.ret.val, self,
                                    q.status)

-----------------------------------------------------------------------------
(* ArcadeDB.get_metadata *)

\* Variant of ParseMetadata with the developer taken from the genre field.
ParseMetadata_DeveloperFromGenre(gameinfo_dic) ==
    [NewGamedataDic EXCEPT
        !.title = gameinfo_dic["title"],
        !.year = gameinfo_dic["year"],
        !.genre = gameinfo_dic["genre"],
        !.developer = gameinfo_dic["genre"],
        !.nplayers = Str(gameinfo_dic["players"]),
        !.esrb = DEFAULT_META_ESRB,
        !.plot = gameinfo_dic["history"]]

\* The raw fields get_metadata reads, in the order it reads them.
MetadataSourceFields ==
    <<"title", "year", "genre", "manufacturer", "players", "history">>

\* The projection of one raw record (every field read is present).
ParseMetadata(gameinfo_dic) ==
    [NewGamedataDic EXCEPT
        !.title = gameinfo_dic["title"],
        !.year = gameinfo_dic["year"],
        !.genre = gameinfo_dic["genre"],
        !.developer = gameinfo_dic["manufacturer"],
        !.nplayers = Str(gameinfo_dic["players"]),
        !.esrb = DEFAULT_META_ESRB,
        !.plot = gameinfo_dic["history"]]

\* json_response_dic['result'][0] is defined.
HasFirstResult(json_response_dic) ==
    /\ "result" \in DOMAIN json_response_dic
    /\ Len(json_response_dic["result"]) >= 1

\* Variant of GetMetadata that consumes the cache entry it has read.
GetMetadata_Consuming(self, status) ==
    IF self.scraper_disabled
    THEN Effect("return", "", Dict(NewGamedataDic), status, self.disk_cache,
                0, 0, 0, FALSE)
    ELSE IF self.cache_key = NoKey
    THEN Effect("raise", NO_CACHE_KEY, None, status, self.disk_cache, 0, 0, 0, FALSE)
    ELSE IF ~CheckDiskCache(self.disk_cache, self.cache_key)
    THEN Effect("raise", LOGIC_ERROR, None, status, self.disk_cache, 0, 1, 0, FALSE)
    ELSE
    LET json_response_dic == RetrieveFromDiskCache(self.disk_cache, self.cache_key)
        rest == [k \in DOMAIN self.disk_cache \ {self.cache_key} |->
                    self.disk_cache[k]]
    IN  IF ~HasFirstResult(json_response_dic)
        THEN Effect("raise", INDEX_ERROR, None, status, rest, 0, 2, 1, FALSE)
        ELSE
        LET gameinfo_dic == json_response_dic["result"][1]
        IN  IF \E i \in 1..Len(MetadataSourceFields) :
                    MetadataSourceFields[i] \notin DOMAIN gameinfo_dic
            THEN Effect("raise", KEY_ERROR, None, status, rest, 0, 2, 1, TRUE)
            ELSE Effect("return", "", Dict(ParseMetadata(gameinfo_dic)), status,
                        rest, 0, 2, 1, TRUE)

GetMetadata(self, status) ==
    IF self.scraper_disabled
    THEN Effect("return", "", Dict(NewGamedataDic), status, self.disk_cache,
                0, 0, 0, FALSE)
    ELSE IF self.cache_key = NoKey
    THEN Effect("raise", NO_CACHE_KEY, None, status, self.disk_cache, 0, 0, 0, FALSE)
    ELSE IF ~CheckDiskCache(self.disk_cache, self.cache_key)
    THEN Effect("raise", LOGIC_ERROR, None, status, self.disk_cache, 0, 1, 0, FALSE)
    ELSE
    LET json_response_dic == RetrieveFromDiskCache(self.disk_cache, self.cache_key)
    IN  IF ~HasFirstResult(json_response_dic)
        THEN Effect("raise", INDEX_ERROR, None, status, self.disk_cache,
                    0, 2, 0, FALSE)
        ELSE
        LET gameinfo_dic == json_response_dic["result"][1]
        IN  IF \E i \in 1..Len(MetadataSourceFields) :
                    MetadataSourceFields[i] \notin DOMAIN gameinfo_dic
            THEN Effect("raise", KEY_ERROR, None, status, self.disk_cache,
                        0, 2, 0, TRUE)
            ELSE Effect("return", "", Dict(ParseMetadata(gameinfo_dic)), status,
                        self.disk_cache, 0, 2, 0, TRUE)

-----------------------------------------------------------------------------
(* ArcadeDB.get_assets *)

\* _get_asset_simple(data_dic, asset_ID, title_str, key)
GetAssetSimple(data_dic, asset_ID, title_str, key) ==
    IF key \in DOMAIN data_dic
    THEN Dict([NewAssetdataDic EXCEPT
                 !.asset_ID = asset_ID,
                 !.display_name = title_str,
                 !.url_thumb = data_dic[key],
                 !.url = data_dic[key]])
    ELSE None

\* if asset_data is not None: all_asset_list.append(asset_data)
AppendAsset(all_asset_list, asset_data) ==
    IF IsNone(asset_data) THEN all_asset_list
    ELSE Append(all_asset_list, asset_data.val)

RetrieveAllAssets(gameinfo_dic) ==
    LET a1 == AppendAsset(<<>>,
                  GetAssetSimple(gameinfo_dic, ASSET_BANNER_ID,
                                 "Banner (Marquee)", "url_image_marquee"))
        a2 == AppendAsset(a1,
                  GetAssetSimple(gameinfo_dic, ASSET_TITLE_ID,
                                 "Title screenshot", "url_image_title"))
        a3 == AppendAsset(a2,
                  GetAssetSimple(gameinfo_dic, ASSET_SNAP_ID,
                                 "Snap screenshot", "url_image_ingame"))
        a4 == AppendAsset(a3,
                  GetAssetSimple(gameinfo_dic, ASSET_BOXFRONT_ID,
                                 "BoxFront (Cabinet)", "url_image_cabinet"))
        a5 == AppendAsset(a4,
                  GetAssetSimple(gameinfo_dic, ASSET_FLYER_ID,
                                 "Flyer", "url_image_flyer"))
    IN  a5

\* Variant of FilterAssets that returns every derived asset.
FilterAssets_NoFilter(all_asset_list, asset_info_id) == all_asset_list

\* [asset_dic for asset_dic in all_asset_list if asset_dic['asset_ID'] == asset_info_id]
FilterAssets(all_asset_list, asset_info_id) ==
    SelectSeq(all_asset_list, LAMBDA asset_dic : asset_dic.asset_ID = asset_info_id)

GetAssets(asset_info_id, self, status) ==
    IF self.scraper_disabled
    THEN Effect("return", "", List(<<>>), status, self.disk_cache, 0, 0, 0, FALSE)
    ELSE IF IsNone(self.candidate)
    THEN Effect("raise", NO_CANDIDATE, None, status, self.disk_cache, 0, 0, 0, FALSE)
    ELSE IF self.cache_key = NoKey
    THEN Effect("raise", NO_CACHE_KEY, None, status, self.disk_cache, 0, 0, 0, FALSE)
    ELSE IF ~CheckDiskCache(self.disk_cache, self.cache_key)
    THEN Effect("raise", LOGIC_ERROR, None, status, self.disk_cache, 0, 1, 0, FALSE)
    ELSE
    LET json_response_dic == RetrieveFromDiskCache(self.disk_cache, self.cache_key)
    IN  IF ~HasFirstResult(json_response_dic)
        THEN Effect("raise", INDEX_ERROR, None, status, self.disk_cache,
                    0, 2, 0, FALSE)
        ELSE
        LET all_asset_list == RetrieveAllAssets(json_response_dic["result"][1])
        IN  IF ~status.status
            THEN Effect("return", "", None, status, self.disk_cache, 0, 2, 0, TRUE)
            ELSE Effect("return", "",
                        List(FilterAssets(all_asset_list, asset_info_id)),
                        status, self.disk_cache, 0, 2, 0, TRUE)

-----------------------------------------------------------------------------
(* The state machine *)

\* The scraper object and the caller's status before a call.
PreState ==
    [scraper_disabled |-> scraper_disabled, cache_key |-> cache_key,
     candidate |-> candidate, disk_cache |-> disk_cache,
     status_dic |-> status_dic]

\* The record kept of a call: its name and arguments, the upstream response
\* it consumed (None when net.get_URL was not invoked), its effect and the
\* state it started from.
Observation(op, args, response, eff) ==
    [op |-> op, args |-> args, response |-> response,
     outcome |-> eff.outcome, exc |-> eff.exc, result |-> eff.result,
     net_calls |-> eff.net_calls, cache_reads |-> eff.cache_reads,
     cache_writes |-> eff.cache_writes, projected |-> eff.projected,
     pre |-> PreState]

\* A call that only returns a value and touches neither cache nor network.
PlainReturn(result) ==
    Effect("return", "", result, status_dic, disk_cache, 0, 0, 0, FALSE)

EmptyCache == [k \in {} |-> None]

\* The caller's session as the tests drive it: get_candidates returned a
\* non-empty list with a successful status ("resolved"), set_candidate was
\* then called with the same identifier and platform and the first candidate
\* ("extracting"), followed by get_metadata / get_assets calls. Any other
\* operation ends the session.
Idle == [stage |-> "idle"]

SessionAfterGetCandidates(identifier, platform, eff) ==
    IF /\ eff.outcome = "return"
       /\ eff.result.tag = "list"
       /\ Len(eff.result.val) > 0
       /\ eff.status.status
    THEN [stage |-> "resolved", key |-> QueryKey(identifier, platform),
          candidate |-> eff.result.val[1]]
    ELSE Idle

SessionAfterSetCandidate(identifier, platform, c) ==
    IF /\ session.stage = "resolved"
       /\ session.key = QueryKey(identifier, platform)
       /\ session.candidate = c
    THEN [stage |-> "extracting", key |-> session.key]
    ELSE Idle

\* No test method is running.
NoTests == <<>>

\* After construction no lookup has been made: no current key, no candidate,
\* empty internal cache, and the caller holds a fresh status_dic.
Init ==
    /\ scraper_disabled = FALSE
    /\ cache_key = NoKey
    /\ candidate = None
    /\ disk_cache = EmptyCache
    /\ status_dic = NewStatusDic
    /\ last = [op |-> "__init__", args |-> <<>>, response |-> None,
               outcome |-> "return", exc |-> "", result |-> None,
               net_calls |-> 0, cache_reads |-> 0, cache_writes |-> 0,
               projected |-> FALSE,
               pre |-> [scraper_disabled |-> FALSE, cache_key |-> NoKey,
                        candidate |-> None, disk_cache |-> EmptyCache,
                        status_dic |-> NewStatusDic]]
    /\ session = Idle
    /\ tests = NoTests

\* scraper_obj.get_candidates(search_term, rom_FN, rom_checksums_FN, platform, status_dic)
CallGetCandidates ==
    \E identifier \in Identifiers, platform \in Platforms :
      \E resp \in Responses(URLGameName(BuildURL(identifier))) :
        LET eff == GetCandidates(identifier, platform, resp, Self, status_dic)
        IN  /\ status_dic' = eff.status
            /\ disk_cache' = eff.cache
            /\ last' = Observation("get_candidates",
                           [identifier |-> identifier, platform |-> platform],
                           IF eff.net_calls = 0 THEN None
                           ELSE [tag |-> "response", val |-> resp],
                           eff)
            /\ session' = SessionAfterGetCandidates(identifier, platform, eff)
            /\ UNCHANGED <<scraper_disabled, cache_key, candidate, tests>>

\* scraper_obj.get_metadata(status_dic)
CallGetMetadata ==
    LET eff == GetMetadata(Self, status_dic)
    IN  /\ status_dic' = eff.status
        /\ disk_cache' = eff.cache
        /\ last' = Observation("get_metadata", <<>>, None, eff)
        /\ UNCHANGED <<scraper_disabled, cache_key, candidate, session, tests>>

\* scraper_obj.get_assets(asset_info_id, status_dic)
CallGetAssets ==
    \E asset_info_id \in AssetKinds :
        LET eff == GetAssets(asset_info_id, Self, status_dic)
        IN  /\ status_dic' = eff.status
            /\ disk_cache' = eff.cache
            /\ last' = Observation("get_assets",
                           [asset_info_id |-> asset_info_id], None, eff)
            /\ UNCHANGED <<scraper_disabled, cache_key, candidate, session, tests>>

\* The candidates a caller may hold: those get_candidates can build.
Candidates ==
    {MakeCandidate(i, p, FullRecord(i)) : i \in Identifiers, p \in Platforms}

\* scraper_obj.set_candidate(rom_identifier, platform, candidate)
CallSetCandidate ==
    \E identifier \in Identifiers, platform \in Platforms, c \in Candidates :
        /\ cache_key' = QueryKey(identifier, platform)
        /\ candidate' = Dict(c)
        /\ last' = Observation("set_candidate",
                       [identifier |-> identifier, platform |-> platform,
                        candidate |-> c],
                       None, PlainReturn(None))
        /\ session' = SessionAfterSetCandidate(identifier, platform, c)
        /\ UNCHANGED <<scraper_disabled, disk_cache, status_dic, tests>>

\* scraper_obj.check_candidates_cache(rom_identifier, platform)
CallCheckCandidatesCache ==
    \E identifier \in Identifiers, platform \in Platforms :
        /\ cache_key' = QueryKey(identifier, platform)
        /\ last' = Observation("check_candidates_cache",
                       [identifier |-> identifier, platform |-> platform],
                       None, PlainReturn(None))
        /\ session' = Idle
        /\ UNCHANGED <<scraper_disabled, candidate, disk_cache, status_dic, tests>>

\* The caller starts over with a fresh status: kodi.new_status_dic(...)
CallNewStatusDic ==
    /\ status_dic' = NewStatusDic
    /\ last' = Observation("new_status_dic", <<>>, None, PlainReturn(None))
    /\ session' = Idle
    /\ UNCHANGED <<scraper_disabled, cache_key, candidate, disk_cache, tests>>

\* The scraper is disabled or enabled again from outside.
SetScraperDisabled ==
    /\ scraper_disabled' = ~scraper_disabled
    /\ last' = Observation("set_scraper_disabled", <<>>, None, PlainReturn(None))
    /\ session' = Idle
    /\ UNCHANGED <<cache_key, candidate, disk_cache, status_dic, tests>>

Next ==
    \/ CallGetCandidates
    \/ CallGetMetadata
    \/ CallGetAssets
    \/ CallSetCandidate
    \/ CallCheckCandidatesCache
    \/ CallNewStatusDic
    \/ SetScraperDisabled

Spec == Init /\ [][Next]_vars

-----------------------------------------------------------------------------
(* Extraction over every shape of cached record *)

\* The raw records with which a lookup can have been resolved: any subset of
\* the fields of the game's record that keeps the title (get_candidates
\* reads the title before it caches the answer).
ResolvedRecords(id) ==
    {Restrict(FullRecord(id), F) :
        F \in {G \in SUBSET (MetaFields \cup AssetFields) : "title" \in G}}

\* The state after check_candidates_cache(id, platform), a get_candidates
\* answered with the single record rec, and set_candidate with the first
\* candidate.
ResolvedState(id, platform, rec) ==
    [scraper_disabled |-> FALSE,
     cache_key |-> QueryKey(id, platform),
     candidate |-> Dict(MakeCandidate(id, platform, rec)),
     disk_cache |-> UpdateDiskCache(EmptyCache, QueryKey(id, platform),
                                    [result |-> <<rec>>]),
     status_dic |-> NewStatusDic]

ExtractionInit ==
    \E id \in Identifiers, platform \in Platforms :
      \E rec \in ResolvedRecords(id) :
        LET s == ResolvedState(id, platform, rec)
        IN  /\ scraper_disabled = s.scraper_disabled
            /\ cache_key = s.cache_key
            /\ candidate = s.candidate
            /\ disk_cache = s.disk_cache
            /\ status_dic = s.status_dic
            /\ last = [op |-> "set_candidate",
                       args |-> [identifier |-> id, platform |-> platform,
                                 candidate |-> s.candidate.val],
                       response |-> None,
                       outcome |-> "return", exc |-> "", result |-> None,
                       net_calls |-> 0, cache_reads |-> 0, cache_writes |-> 0,
                       projected |-> FALSE, pre |-> s]
            /\ session = [stage |-> "extracting", key |-> s.cache_key]
            /\ tests = NoTests

ExtractionNext ==
    \/ CallGetMetadata
    \/ CallGetAssets

SpecExtraction == ExtractionInit /\ [][ExtractionNext]_vars

-----------------------------------------------------------------------------
(* Scraping sessions as the test methods drive them *)

\* The two test methods; each drives one session against the scraper.
Tests == {"test_arcadedb_metadata", "test_arcadedb_assets"}

\* The asset kinds test_arcadedb_assets asks for, in order.
TestAssetKinds ==
    <<ASSET_TITLE_ID, ASSET_SNAP_ID, ASSET_BOXFRONT_ID, ASSET_FLYER_ID>>

\* The locals of a test method before its first call on the scraper: the
\* game chosen from the games table, a fresh status_dic, and its position.
\* flushes counts its flush_disk_cache() calls.
TestStart(identifier, platform) ==
    [pc |-> "check_candidates_cache",
     identifier |-> identifier, platform |-> platform,
     status_dic |-> NewStatusDic,
     answer |-> None, candidate_list |-> None, metadata |-> None,
     asset |-> 1, flushes |-> 0]

\* The record of a call made by test t, which passes its own status_dic.
TestObservation(t, op, args, response, eff) ==
    [Observation(op, args, response, eff) EXCEPT
        !.pre.status_dic = tests[t].status_dic]

\* An exception leaves the test method at once: the statements after the
\* raising one, flush_disk_cache() included, are not executed.
AfterCall(eff, next_pc) == IF eff.outcome = "raise" THEN "aborted" ELSE next_pc

SessionsInit ==
    /\ scraper_disabled = FALSE
    /\ cache_key = NoKey
    /\ candidate = None
    /\ disk_cache = EmptyCache
    /\ status_dic = NewStatusDic
    /\ last = [op |-> "__init__", args |-> <<>>, response |-> None,
               outcome |-> "return", exc |-> "", result |-> None,
               net_calls |-> 0, cache_reads |-> 0, cache_writes |-> 0,
               projected |-> FALSE,
               pre |-> [scraper_disabled |-> FALSE, cache_key |-> NoKey,
                        candidate |-> None, disk_cache |-> EmptyCache,
                        status_dic |-> NewStatusDic]]
    /\ session = Idle
    /\ \E game \in [Tests -> Identifiers \X Platforms] :
          tests = [t \in Tests |-> TestStart(game[t][1], game[t][2])]

\* scraper_obj.check_candidates_cache(rom.get_identifier(), platform)
TestCheckCandidatesCache ==
    \E t \in Tests :
        /\ tests[t].pc = "check_candidates_cache"
        /\ cache_key' = QueryKey(tests[t].identifier, tests[t].platform)
        /\ last' = TestObservation(t, "check_candidates_cache",
                       [identifier |-> tests[t].identifier,
                        platform |-> tests[t].platform],
                       None, PlainReturn(None))
        /\ tests' = [tests EXCEPT ![t].pc = "get_candidates"]
        /\ UNCHANGED <<scraper_disabled, candidate, disk_cache, status_dic,
                       session>>

\* candidate_list = scraper_obj.get_candidates(search_term, rom, platform, status_dic)
TestGetCandidates ==
    \E t \in Tests :
      \E resp \in Responses(URLGameName(BuildURL(tests[t].identifier))) :
        LET eff == GetCandidates(tests[t].identifier, tests[t].platform, resp,
                                 Self, tests[t].status_dic)
            response == IF eff.net_calls = 0 THEN None
                        ELSE [tag |-> "response", val |-> resp]
        IN  /\ tests[t].pc = "get_candidates"
            /\ status_dic' = eff.status
            /\ disk_cache' = eff.cache
            /\ last' = TestObservation(t, "get_candidates",
                           [identifier |-> tests[t].identifier,
                            platform |-> tests[t].platform],
                           response, eff)
            /\ tests' = [tests EXCEPT
                            ![t].status_dic = eff.status,
                            ![t].answer = response,
                            ![t].candidate_list = eff.result,
                            ![t].pc = AfterCall(eff, "assert")]
            /\ UNCHANGED <<scraper_disabled, cache_key, candidate, session>>

\* assertTrue(status_dic['status']); assertIsNotNone(candidate_list);
\* assertNotEquals(len(candidate_list), 0): a failed assertion raises.
TestAssertCandidates ==
    \E t \in Tests :
        /\ tests[t].pc = "assert"
        /\ tests' = [tests EXCEPT ![t].pc =
                        IF /\ tests[t].status_dic.status
                           /\ tests[t].candidate_list.tag = "list"
                           /\ Len(tests[t].candidate_list.val) # 0
                        THEN "set_candidate" ELSE "aborted"]
        /\ UNCHANGED <<scraper_disabled, cache_key, candidate, disk_cache,
                       status_dic, last, session>>

\* scraper_obj.set_candidate(rom.get_identifier(), platform, candidate_list[0])
TestSetCandidate ==
    \E t \in Tests :
        /\ tests[t].pc = "set_candidate"
        /\ cache_key' = QueryKey(tests[t].identifier, tests[t].platform)
        /\ candidate' = Dict(tests[t].candidate_list.val[1])
        /\ last' = TestObservation(t, "set_candidate",
                       [identifier |-> tests[t].identifier,
                        platform |-> tests[t].platform,
                        candidate |-> tests[t].candidate_list.val[1]],
                       None, PlainReturn(None))
        /\ tests' = [tests EXCEPT ![t].pc =
                        IF t = "test_arcadedb_metadata"
                        THEN "get_metadata" ELSE "get_assets"]
        /\ UNCHANGED <<scraper_disabled, disk_cache, status_dic, session>>

\* metadata = scraper_obj.get_metadata(status_dic)
TestGetMetadata ==
    \E t \in Tests :
        LET eff == GetMetadata(Self, tests[t].status_dic)
        IN  /\ tests[t].pc = "get_metadata"
            /\ status_dic' = eff.status
            /\ disk_cache' = eff.cache
            /\ last' = TestObservation(t, "get_metadata", <<>>, None, eff)
            /\ tests' = [tests EXCEPT
                            ![t].status_dic = eff.status,
                            ![t].metadata = eff.result,
                            ![t].pc = AfterCall(eff, "flush_disk_cache")]
            /\ UNCHANGED <<scraper_disabled, cache_key, candidate, session>>

\* self.print_game_assets(scraper_obj.get_assets(<kind>, status_dic)), four
\* times; print_game_assets iterates the result, which raises on None.
TestGetAssets ==
    \E t \in Tests :
        LET asset_info_id == TestAssetKinds[tests[t].asset]
            eff == GetAssets(asset_info_id, Self, tests[t].status_dic)
        IN  /\ tests[t].pc = "get_assets"
            /\ status_dic' = eff.status
            /\ disk_cache' = eff.cache
            /\ last' = TestObservation(t, "get_assets",
                           [asset_info_id |-> asset_info_id], None, eff)
            /\ tests' = [tests EXCEPT
                            ![t].status_dic = eff.status,
                            ![t].asset =
                                IF @ < Len(TestAssetKinds) THEN @ + 1 ELSE @,
                            ![t].pc =
                                IF eff.outcome = "raise" \/ eff.result.tag = "None"
                                THEN "aborted"
                                ELSE IF tests[t].asset < Len(TestAssetKinds)
                                THEN "get_assets" ELSE "flush_disk_cache"]
            /\ UNCHANGED <<scraper_disabled, cache_key, candidate, session>>

\* scraper_obj.flush_disk_cache(): the last statement of the test method.
\* It writes the caches to their files and keeps them in memory.
TestFlushDiskCache ==
    \E t \in Tests :
        /\ tests[t].pc = "flush_disk_cache"
        /\ last' = TestObservation(t, "flush_disk_cache", <<>>, None,
                                   PlainReturn(None))
        /\ tests' = [tests EXCEPT ![t].flushes = @ + 1, ![t].pc = "done"]
        /\ UNCHANGED <<scraper_disabled, cache_key, candidate, disk_cache,
                       status_dic, session>>

SessionsNext ==
    \/ TestCheckCandidatesCache
    \/ TestGetCandidates
    \/ TestAssertCandidates
    \/ TestSetCandidate
    \/ TestGetMetadata
    \/ TestGetAssets
    \/ TestFlushDiskCache

SpecSessions == SessionsInit /\ [][SessionsNext]_vars

-----------------------------------------------------------------------------
(* Vocabulary of the properties *)

IsExtraction == last.op \in {"get_metadata", "get_assets"}
IsPublicOperation == last.op \in {"get_candidates", "get_metadata", "get_assets"}

\* The Query Key of the get_candidates call just made.
LastQueryKey == QueryKey(last.args.identifier, last.args.platform)

\* The get_candidates call just made invoked net.get_URL.
Queried == last.op = "get_candidates" /\ last.net_calls = 1

LastResponse == last.response.val

\* The upstream query of the call just made failed: non-200 code, no body,
\* or a body that does not decode.
QueryFailed ==
    /\ Queried
    /\ \/ LastResponse.code # 200
       \/ LastResponse.page.tag = "None"
       \/ ~LastResponse.page.decodes

\* The upstream query of the call just made was answered (HTTP 200) with a
\* payload carrying a record sequence; LastPayload is that payload.
Answered ==
    /\ Queried
    /\ LastResponse.code = 200
    /\ LastResponse.page.tag = "str"
    /\ LastResponse.page.decodes
    /\ "result" \in DOMAIN LastResponse.page.json

LastPayload == LastResponse.page.json

NumRecords == Len(LastPayload["result"])

CacheUnchanged == disk_cache = last.pre.disk_cache
StatusUnchanged == status_dic = last.pre.status_dic

-----------------------------------------------------------------------------
(* Properties *)

\* C1: with the scraper enabled, a get_candidates call for a Query Key that
\* is already in the internal cache does not invoke the upstream query.
C1_CacheShortCircuit ==
    ( /\ last.op = "get_candidates"
      /\ ~last.pre.scraper_disabled
      /\ CheckDiskCache(last.pre.disk_cache, LastQueryKey) )
    => last.net_calls = 0

\* C2: a get_candidates call whose upstream answer has exactly one record
\* returns a one-element list whose candidate has order 1 and the call's
\* identifier as id, and afterwards the internal cache holds this call's
\* payload under the Query Key (identifier, platform) of this call. Stated
\* for the calls entered with a successful status and with self.cache_key
\* set by an earlier lookup.
C2_OneRecordCachedUnderQueryKey ==
    ( /\ Answered
      /\ NumRecords = 1
      /\ last.pre.status_dic.status
      /\ last.pre.cache_key # NoKey )
    => /\ last.outcome = "return"
       /\ last.result.tag = "list"
       /\ Len(last.result.val) = 1
       /\ last.result.val[1].order = 1
       /\ last.result.val[1].id = last.args.identifier
       /\ CheckDiskCache(disk_cache, LastQueryKey)
       /\ RetrieveFromDiskCache(disk_cache, LastQueryKey) = LastPayload

\* C3: in a session where get_candidates returned a non-empty list with a
\* successful status and set_candidate was then called with the same
\* identifier, platform and the first candidate, every following
\* get_metadata call and get_assets call (title, snap, box-front, flyer)
\* finds the key in the internal cache, does not raise the logic error,
\* issues no upstream query and leaves the status successful.
C3_ResolveThenExtract ==
    ( /\ session.stage = "extracting"
      /\ IsExtraction
      /\ last.op = "get_assets" => supports_asset_ID(last.args.asset_info_id) )
    => /\ CheckDiskCache(disk_cache, cache_key)
       /\ last.exc # LOGIC_ERROR
       /\ last.net_calls = 0
       /\ status_dic.status

\* C4: with the scraper enabled, get_metadata or get_assets called while the
\* internal cache has no entry for the current key raises the logic error,
\* issues no upstream query and leaves cache and status unchanged.
C4_CacheMissRaisesLogicError ==
    ( /\ IsExtraction
      /\ ~last.pre.scraper_disabled
      /\ last.pre.cache_key # NoKey
      /\ ~CheckDiskCache(last.pre.disk_cache, last.pre.cache_key) )
    => /\ last.outcome = "raise"
       /\ last.exc = LOGIC_ERROR
       /\ last.net_calls = 0
       /\ CacheUnchanged
       /\ StatusUnchanged

\* C5: a get_candidates call whose upstream answer has two or more records
\* raises the cardinality fault: no candidate list is returned, the status is
\* as on entry and nothing is written to the cache.
C5_MultipleRecordsRaise ==
    (Answered /\ NumRecords >= 2)
    => /\ last.outcome = "raise"
       /\ last.exc = CARDINALITY_ERROR
       /\ StatusUnchanged
       /\ last.cache_writes = 0
       /\ CacheUnchanged

\* C6: a get_candidates call entered with a successful status whose upstream
\* answer decodes to zero records returns an empty candidate list (not None,
\* nothing raised) and the status is still successful.
C6_ZeroRecordsEmptyList ==
    (Answered /\ last.pre.status_dic.status /\ NumRecords = 0)
    => /\ last.outcome = "return"
       /\ last.result = List(<<>>)
       /\ status_dic.status

C6_Witness ==
    /\ Answered
    /\ last.pre.status_dic.status
    /\ NumRecords = 0
    /\ last.result = List(<<>>)

\* C7: a get_candidates call whose upstream query fails (non-200 code, no
\* body, undecodable body) sets the status to failure with a message,
\* returns None without raising and leaves every cache entry as it was.
C7_UpstreamFailure ==
    QueryFailed
    => /\ ~status_dic.status
       /\ status_dic.msg.text
            \in {HTTP_ERROR_TEXT, NETWORK_ERROR_TEXT, DECODE_ERROR_TEXT}
       /\ last.outcome = "return"
       /\ last.result = None
       /\ last.cache_writes = 0
       /\ CacheUnchanged

C7_Witness ==
    /\ QueryFailed
    /\ LastResponse.code = 200
    /\ LastResponse.page = PageUndecodable
    /\ last.pre.status_dic.status
    /\ last.pre.disk_cache # EmptyCache
    /\ status_dic.msg.text = DECODE_ERROR_TEXT

\* C8: get_candidates, get_metadata or get_assets entered with the status
\* already failed returns early: no upstream query, no cache read, no cache
\* write, no record projection.
C8_FailedStatusShortCircuit ==
    (IsPublicOperation /\ ~last.pre.status_dic.status)
    => /\ last.outcome = "return"
       /\ last.net_calls = 0
       /\ last.cache_reads = 0
       /\ last.cache_writes = 0
       /\ ~last.projected

\* C9: while the scraper is disabled, get_candidates returns None,
\* get_metadata the default empty record and get_assets an empty list, and
\* each leaves status and cache unchanged, with no cache lookup and no
\* upstream call.
C9_DisabledMode ==
    (IsPublicOperation /\ last.pre.scraper_disabled)
    => /\ last.outcome = "return"
       /\ last.op = "get_candidates" => last.result = None
       /\ last.op = "get_metadata" => last.result = Dict(NewGamedataDic)
       /\ last.op = "get_assets" => last.result = List(<<>>)
       /\ StatusUnchanged
       /\ CacheUnchanged
       /\ last.net_calls = 0
       /\ last.cache_reads = 0
       /\ last.cache_writes = 0

C9_Witness ==
    /\ last.op = "get_candidates"
    /\ last.pre.scraper_disabled
    /\ last.pre.cache_key # NoKey
    /\ CheckDiskCache(last.pre.disk_cache, last.pre.cache_key)
    /\ ~last.pre.status_dic.status
    /\ last.result = None

\* C10: an upstream response with an HTTP code other than 200 makes the
\* status fail without an exception; the status message carries the body's
\* message field when the body decodes and has one, and the generic fallback
\* text otherwise.
C10_HttpErrorMessage ==
    (Queried /\ LastResponse.code # 200)
    => /\ ~status_dic.status
       /\ last.outcome = "return"
       /\ status_dic.msg.text = HTTP_ERROR_TEXT
       /\ status_dic.msg.http_code = LastResponse.code
       /\ status_dic.msg.error_msg =
            IF /\ LastResponse.page.tag = "str"
               /\ LastResponse.page.decodes
               /\ "message" \in DOMAIN LastResponse.page.json
            THEN LastResponse.page.json["message"]
            ELSE UNKNOWN_ERROR_TEXT

C10_Witness ==
    /\ Queried
    /\ LastResponse.code = 503
    /\ LastResponse.page = PageJson([message |-> ServiceMessage])
    /\ last.pre.status_dic.status
    /\ ~status_dic.status
    /\ status_dic.msg.error_msg = ServiceMessage

\* C11: a transport failure that yields no body (page_data_raw is None) is
\* reported as the network error, for every HTTP code that comes with it.
C11_NoBodyIsNetworkError ==
    (Queried /\ LastResponse.page.tag = "None")
    => /\ ~status_dic.status
       /\ status_dic.msg.text = NETWORK_ERROR_TEXT

\* C15: the declared asset capability set equals the set of kinds the
\* scraper can populate; in particular get_assets never returns an entry of
\* a kind that supports_asset_ID does not declare.
C15_AssetsWithinCapabilities ==
    ( /\ last.op = "get_assets"
      /\ last.outcome = "return"
      /\ last.result.tag = "list"
      /\ Len(last.result.val) > 0 )
    => /\ supports_asset_ID(last.args.asset_info_id)
       /\ \A i \in 1..Len(last.result.val) :
             supports_asset_ID(last.result.val[i].asset_ID)

\* C18: the payload get_metadata reads under the current key is the payload
\* fetched for the currently set candidate's identifier: the returned title
\* equals the display_name of the current candidate. Stated for callers that
\* set the candidate together with the key of the candidate's own id.
C18_CandidatePayloadCorrespondence ==
    ( /\ last.op = "get_metadata"
      /\ ~scraper_disabled
      /\ last.outcome = "return"
      /\ candidate.tag = "dict"
      /\ cache_key = QueryKey(candidate.val.id, candidate.val.platform) )
    => last.result.val.title = candidate.val.display_name

\* C19: every payload in the internal cache has exactly one record in its
\* result sequence, so result[0] is defined after every cache hit.
C19_CachedPayloadsHaveOneRecord ==
    \A k \in DOMAIN disk_cache :
        /\ "result" \in DOMAIN disk_cache[k]
        /\ Len(disk_cache[k]["result"]) = 1

C19_Witness ==
    /\ Answered
    /\ NumRecords >= 2
    /\ last.pre.cache_key # NoKey
    /\ last.pre.status_dic.status
    /\ DOMAIN disk_cache # {}
    /\ C19_CachedPayloadsHaveOneRecord

\* C20: whenever get_assets returns normally, also when the status passed in
\* is already failed, its result is a list of asset entries and never None.
C20_AssetsResultIsList ==
    (last.op = "get_assets" /\ last.outcome = "return")
    => last.result.tag = "list"

\* The raw record under the key that was current when the last call began.
CachedRecord == last.pre.disk_cache[last.pre.cache_key]["result"][1]

\* The last call was an extraction that found its record: scraper enabled,
\* current key present in the internal cache.
ExtractedFromCache ==
    /\ IsExtraction
    /\ ~last.pre.scraper_disabled
    /\ last.pre.cache_key # NoKey
    /\ CheckDiskCache(last.pre.disk_cache, last.pre.cache_key)

\* The fixed table of (asset kind, raw field) pairs.
AssetTable ==
    {<<ASSET_BANNER_ID, "url_image_marquee">>,
     <<ASSET_TITLE_ID, "url_image_title">>,
     <<ASSET_SNAP_ID, "url_image_ingame">>,
     <<ASSET_BOXFRONT_ID, "url_image_cabinet">>,
     <<ASSET_FLYER_ID, "url_image_flyer">>}

\* C12: get_assets(k) returns exactly the entries of kind k: one for each
\* pair of the table of that kind whose raw field is present in the cached
\* record, none for absent fields, with url and url_thumb both equal to the
\* raw field's value.
C12_AssetsOfKind ==
    ( /\ last.op = "get_assets"
      /\ ExtractedFromCache
      /\ last.pre.candidate.tag = "dict"
      /\ last.pre.status_dic.status )
    => LET k == last.args.asset_info_id
           present == {t \in AssetTable :
                          t[1] = k /\ t[2] \in DOMAIN CachedRecord}
       IN  /\ last.outcome = "return"
           /\ last.result.tag = "list"
           /\ Len(last.result.val) = Cardinality(present)
           /\ \A i \in 1..Len(last.result.val) :
                 last.result.val[i].asset_ID = k
           /\ \A t \in present :
                 \E i \in 1..Len(last.result.val) :
                    /\ last.result.val[i].url = CachedRecord[t[2]]
                    /\ last.result.val[i].url_thumb = CachedRecord[t[2]]

C12_Witness ==
    /\ last.op = "get_assets"
    /\ ExtractedFromCache
    /\ last.args.asset_info_id = ASSET_SNAP_ID
    /\ DOMAIN CachedRecord \cap AssetFields
         = {"url_image_ingame", "url_image_title", "url_image_flyer"}
    /\ last.result.tag = "list"
    /\ Len(last.result.val) = 1
    /\ last.result.val[1].url = CachedRecord["url_image_ingame"]

\* The metadata record the claim describes for a raw record that has all
\* six fields.
ExpectedMetadata(rec) ==
    [title |-> rec["title"], year |-> rec["year"], genre |-> rec["genre"],
     developer |-> rec["manufacturer"], nplayers |-> Str(rec["players"]),
     esrb |-> DEFAULT_META_ESRB, plot |-> rec["history"]]

\* C13 as stated: for every cached record get_metadata returns a record with
\* the content rating at the system default and each field copied from the
\* raw field, also when some raw fields are absent.
C13_MetadataForEveryRecord ==
    (last.op = "get_metadata" /\ ExtractedFromCache)
    => /\ last.outcome = "return"
       /\ last.result.tag = "dict"
       /\ last.result.val.esrb = DEFAULT_META_ESRB
       /\ "title" \in DOMAIN CachedRecord
            => last.result.val.title = CachedRecord["title"]
       /\ "manufacturer" \in DOMAIN CachedRecord
            => last.result.val.developer = CachedRecord["manufacturer"]

\* C13, amended: for a cached record that has title, year, genre,
\* manufacturer, players and history, get_metadata returns the projection
\* with the content rating at the system default; for a record lacking any
\* of the six it raises KeyError and returns nothing.
C13_MetadataProjection ==
    (last.op = "get_metadata" /\ ExtractedFromCache)
    => IF MetaFields \subseteq DOMAIN CachedRecord
       THEN /\ last.outcome = "return"
            /\ last.result = Dict(ExpectedMetadata(CachedRecord))
       ELSE /\ last.outcome = "raise"
            /\ last.exc = KEY_ERROR

C13_Witness ==
    /\ last.op = "get_metadata"
    /\ ExtractedFromCache
    /\ DOMAIN CachedRecord = MetaFields
    /\ last.result.tag = "dict"
    /\ last.result.val.nplayers = <<"4">>
    /\ last.result.val.developer = "Capcom"

\* C14: get_metadata changes neither the cache, the current key, the current
\* candidate nor the status, and a get_metadata call that directly follows
\* another ends the same way with an identical record.
C14_MetadataIdempotent ==
    [][ last'.op = "get_metadata"
        => /\ UNCHANGED <<disk_cache, cache_key, candidate, status_dic>>
           /\ last.op = "get_metadata"
                => /\ last'.outcome = last.outcome
                   /\ last'.result = last.result ]_vars

\* A state reached by get_metadata for a resolved candidate from which the
\* next get_metadata call starts in the very state the previous one did.
C14_Witness ==
    /\ last.op = "get_metadata"
    /\ session.stage = "extracting"
    /\ last.outcome = "return"
    /\ last.result.tag = "dict"
    /\ last.pre = PreState

\* The test method has ended: by returning or by an exception.
Ended(t) == tests[t].pc \in {"done", "aborted"}

\* The upstream answered test t's query with exactly one record, which has
\* every field get_metadata reads.
AnsweredWithOneRecord(t) ==
    /\ tests[t].answer.tag = "response"
    /\ tests[t].answer.val.code = 200
    /\ tests[t].answer.val.page.tag = "str"
    /\ tests[t].answer.val.page.decodes
    /\ "result" \in DOMAIN tests[t].answer.val.page.json
    /\ Len(tests[t].answer.val.page.json["result"]) = 1
    /\ MetaFields \subseteq DOMAIN tests[t].answer.val.page.json["result"][1]

\* C16: two sessions on different Query Keys, interleaved call by call on one
\* scraper, each answered with exactly one record: when both have ended the
\* cache holds under each key the payload fetched for that key's identifier,
\* and the session that asks for metadata got the record of its own game.
C16_InterleavedSessions ==
    ( /\ \A t \in Tests : Ended(t) /\ AnsweredWithOneRecord(t)
      /\ \A t, u \in Tests :
            t # u => QueryKey(tests[t].identifier, tests[t].platform)
                       # QueryKey(tests[u].identifier, tests[u].platform) )
    => /\ \A t \in Tests :
            LET key == QueryKey(tests[t].identifier, tests[t].platform)
            IN  /\ CheckDiskCache(disk_cache, key)
                /\ disk_cache[key] = tests[t].answer.val.page.json
       /\ LET t == "test_arcadedb_metadata"
          IN  /\ tests[t].metadata.tag = "dict"
              /\ tests[t].metadata.val.title = Title(tests[t].identifier)

\* C17: when a test method has ended, normally or by a failed assertion or
\* a raised exception, it has called flush_disk_cache exactly once.
C17_FlushOncePerSession ==
    \A t \in Tests : Ended(t) => tests[t].flushes = 1

=============================================================================
